---- MODULE Spec2Model ----
(***************************************************************************)
(* Model of the Transformer stage of the credit-activity pipeline           *)
(* (src/pipeline/transform.py) and of the Org Balance aggregation           *)
(* (src/pipeline/create_views.py).                                          *)
(*                                                                          *)
(* A DataFrame is a record [cols, dtype, rows]: the column labels, the      *)
(* dtype pandas holds each column in, and the rows, each carrying its       *)
(* index label and one cell per column.  A cell is [k, s, d, t]:            *)
(*   k = "nan"  a missing value (NaN / None)                                *)
(*   k = "str"  a Python str, s its characters                              *)
(*   k = "num"  a number, s its decimal digits (optionally signed)          *)
(*   k = "ts"   a pandas Timestamp, d days since 1970-01-01, t seconds of   *)
(*              the day                                                     *)
(*   k = "nat"  pd.NaT                                                      *)
(* Text is a sequence of one-character strings so that parsing, stripping   *)
(* and lower-casing are computed on the characters.                         *)
(***************************************************************************)
EXTENDS Integers, Sequences, FiniteSets, TLC

VARIABLES input, df, out, prev, pc, db, today, stage, call, ret, unreliable

vars == <<input, df, out, prev, pc, db, today, stage, call, ret, unreliable>>

\* ------------------------------------------------------------------ cells

NaN == [k |-> "nan", s |-> <<>>, d |-> 0, t |-> 0]

NaT == [k |-> "nat", s |-> <<>>, d |-> 0, t |-> 0]

S(chars) == [k |-> "str", s |-> chars, d |-> 0, t |-> 0]

N(digits) == [k |-> "num", s |-> digits, d |-> 0, t |-> 0]

Timestamp(day, sec) == [k |-> "ts", s |-> <<>>, d |-> day, t |-> sec]

\* pd.isna / pd.notna on a cell
isna(c) == c.k \in {"nan", "nat"}

\* ------------------------------------------------------------------ text

DigitChars == <<"0", "1", "2", "3", "4", "5", "6", "7", "8", "9">>

UpperChars == <<"A", "B", "C", "D", "E", "F", "G", "H", "I", "J", "K", "L", "M",
                "N", "O", "P", "Q", "R", "S", "T", "U", "V", "W", "X", "Y", "Z">>

LowerChars == <<"a", "b", "c", "d", "e", "f", "g", "h", "i", "j", "k", "l", "m",
                "n", "o", "p", "q", "r", "s", "t", "u", "v", "w", "x", "y", "z">>

\* The characters of the model in code-point order (Python compares str by
\* code point): space, '-', '/', digits, ':', upper case, lower case.
CodePoints == <<" ", "-", "/">> \o DigitChars \o <<":">> \o UpperChars \o LowerChars

IndexIn(seq, c) == CHOOSE i \in 1..Len(seq) : seq[i] = c

Ord(c) == IndexIn(CodePoints, c)

IsDigit(c) == \E i \in 1..10 : DigitChars[i] = c

DigitVal(c) == IndexIn(DigitChars, c) - 1

AllDigits(s) == Len(s) > 0 /\ \A i \in 1..Len(s) : IsDigit(s[i])

\* int(s) for a short digit string
RECURSIVE IntOf(_)
IntOf(s) == IF s = <<>> THEN 0
            ELSE 10 * IntOf(SubSeq(s, 1, Len(s) - 1)) + DigitVal(s[Len(s)])

\* str < str, lexicographic by code point
RECURSIVE StrLess(_, _)
StrLess(a, b) ==
    IF b = <<>> THEN FALSE
    ELSE IF a = <<>> THEN TRUE
    ELSE IF a[1] = b[1] THEN StrLess(Tail(a), Tail(b))
    ELSE Ord(a[1]) < Ord(b[1])

\* a function on 1..n as the tuple of its values
Seq1(f) == f \o <<>>

\* str.lower()
LowerChar(c) == IF \E i \in 1..26 : UpperChars[i] = c
                THEN LowerChars[IndexIn(UpperChars, c)] ELSE c

lower(s) == Seq1([i \in 1..Len(s) |-> LowerChar(s[i])])

\* str.strip(): surrounding whitespace removed
RECURSIVE lstrip(_)
lstrip(s) == IF s # <<>> /\ s[1] = " " THEN lstrip(Tail(s)) ELSE s

RECURSIVE rstrip(_)
rstrip(s) == IF s # <<>> /\ s[Len(s)] = " "
             THEN rstrip(SubSeq(s, 1, Len(s) - 1)) ELSE s

strip(s) == rstrip(lstrip(s))

\* s.split(sep) for a one-character separator
RECURSIVE Split(_, _)
Split(s, sep) ==
    IF \E i \in 1..Len(s) : s[i] = sep
    THEN LET i == CHOOSE j \in 1..Len(s) :
                      s[j] = sep /\ \A h \in 1..(j - 1) : s[h] # sep
         IN  <<SubSeq(s, 1, i - 1)>> \o Split(SubSeq(s, i + 1, Len(s)), sep)
    ELSE <<s>>

\* -------------------------------------------------------------- calendar

SecondsPerDay == 86400

IsLeap(y) == (y % 4 = 0 /\ y % 100 # 0) \/ y % 400 = 0

DaysInMonth(y, m) ==
    IF m = 2 THEN (IF IsLeap(y) THEN 29 ELSE 28)
    ELSE IF m \in {4, 6, 9, 11} THEN 30 ELSE 31

\* days from 1970-01-01 to the civil date y-m-d
DaysFromCivil(y, m, d) ==
    LET yy  == IF m <= 2 THEN y - 1 ELSE y
        era == yy \div 400
        yoe == yy - era * 400
        mp  == IF m > 2 THEN m - 3 ELSE m + 9
        doy == (153 * mp + 2) \div 5 + d - 1
        doe == yoe * 365 + yoe \div 4 - yoe \div 100 + doy
    IN  era * 146097 + doe - 719468

ValidDate(y, m, d) == m \in 1..12 /\ d >= 1 /\ d <= DaysInMonth(y, m)

\* Timestamp <= Timestamp
TsLeq(a, b) == a.d < b.d \/ (a.d = b.d /\ a.t <= b.t)

TsLess(a, b) == a.d < b.d \/ (a.d = b.d /\ a.t < b.t)

\* ------------------------------------------------------- datetime_parser

\* pd.to_datetime("1990-01-01")
START_DATE == Timestamp(DaysFromCivil(1990, 1, 1), 0)

\* pd.to_datetime("2050-01-01")
END_DATE == Timestamp(DaysFromCivil(2050, 1, 1), 0)

\* The text of a number: digits with an optional leading minus sign.
IsNumericText(s) ==
    IF s # <<>> /\ s[1] = "-" THEN AllDigits(Tail(s)) ELSE AllDigits(s)

\* pd.to_numeric(date_value, errors="coerce") is a number (pd.notna)
IsNumeric(c) == \/ c.k = "num"
                \/ c.k = "str" /\ IsNumericText(c.s)

\* pd.to_datetime(n, unit="s") for a non-negative whole number of seconds,
\* computed digit by digit on (days, seconds of day) so that no intermediate
\* exceeds the machine integer.
RECURSIVE EpochSeconds(_)
EpochSeconds(digits) ==
    IF digits = <<>> THEN Timestamp(0, 0)
    ELSE LET hi   == EpochSeconds(SubSeq(digits, 1, Len(digits) - 1))
             secs == hi.t * 10 + DigitVal(digits[Len(digits)])
         IN  Timestamp(hi.d * 10 + secs \div SecondsPerDay, secs % SecondsPerDay)

IsNegativeText(s) == s # <<>> /\ s[1] = "-" /\ \E i \in 2..Len(s) : s[i] # "0"

\* "%Y-%m-%d %H:%M:%S"
ParseISO(s) ==
    IF /\ Len(s) = 19
       /\ s[5] = "-" /\ s[8] = "-" /\ s[11] = " " /\ s[14] = ":" /\ s[17] = ":"
       /\ \A i \in (1..19) \ {5, 8, 11, 14, 17} : IsDigit(s[i])
    THEN LET y  == IntOf(SubSeq(s, 1, 4))
             m  == IntOf(SubSeq(s, 6, 7))
             d  == IntOf(SubSeq(s, 9, 10))
             hh == IntOf(SubSeq(s, 12, 13))
             mm == IntOf(SubSeq(s, 15, 16))
             ss == IntOf(SubSeq(s, 18, 19))
         IN  IF ValidDate(y, m, d) /\ hh <= 23 /\ mm <= 59 /\ ss <= 59
             THEN Timestamp(DaysFromCivil(y, m, d), hh * 3600 + mm * 60 + ss)
             ELSE NaT
    ELSE NaT

ShortField(f) == Len(f) \in 1..2 /\ AllDigits(f)

YearField(f) == Len(f) = 4 /\ AllDigits(f)

\* "%d-%m-%Y"
ParseEuropean(s) ==
    LET f == Split(s, "-")
    IN  IF Len(f) = 3 /\ ShortField(f[1]) /\ ShortField(f[2]) /\ YearField(f[3])
        THEN LET d == IntOf(f[1])
                 m == IntOf(f[2])
                 y == IntOf(f[3])
             IN  IF ValidDate(y, m, d) THEN Timestamp(DaysFromCivil(y, m, d), 0)
                 ELSE NaT
        ELSE NaT

\* "%m/%d/%Y %H:%M %p": %p is matched but, the hour being read with %H and
\* not %I, it does not change the hour.
ParseUS(s) ==
    LET w == Split(s, " ")
    IN  IF Len(w) = 3 /\ lower(w[3]) \in {<<"a", "m">>, <<"p", "m">>}
        THEN LET f == Split(w[1], "/")
                 h == Split(w[2], ":")
             IN  IF /\ Len(f) = 3 /\ ShortField(f[1]) /\ ShortField(f[2])
                    /\ YearField(f[3])
                    /\ Len(h) = 2 /\ ShortField(h[1]) /\ ShortField(h[2])
                 THEN LET m  == IntOf(f[1])
                          d  == IntOf(f[2])
                          y  == IntOf(f[3])
                          hh == IntOf(h[1])
                          mm == IntOf(h[2])
                      IN  IF ValidDate(y, m, d) /\ hh <= 23 /\ mm <= 59
                          THEN Timestamp(DaysFromCivil(y, m, d), hh * 3600 + mm * 60)
                          ELSE NaT
                 ELSE NaT
        ELSE NaT

\* pd.to_datetime(date_value, format=STRING_FORMATS[i]); NaT stands for the
\* ValueError the loop catches.
ParseFormat(i, s) ==
    CASE i = 1 -> ParseISO(s)
      [] i = 2 -> ParseEuropean(s)
      [] i = 3 -> ParseUS(s)

NumFormats == 3

RECURSIVE TryFormats(_, _)
TryFormats(i, s) ==
    IF i > NumFormats THEN NaT
    ELSE LET parsed == ParseFormat(i, s)
         IN  IF parsed.k = "ts" THEN parsed ELSE TryFormats(i + 1, s)

\* a faulty variant of the window test below: both ends excluded
InWindowBothOpen(ts) == TsLess(START_DATE, ts) /\ TsLess(ts, END_DATE)

\* START_DATE <= ts <= END_DATE
InWindow(ts) == TsLeq(START_DATE, ts) /\ TsLeq(ts, END_DATE)

\* the first tier: the value read as epoch seconds, NaT when it is no number
\* or lies outside the window
NumericTier(c) ==
    IF IsNumeric(c) /\ ~IsNegativeText(c.s)
    THEN LET ts == EpochSeconds(IF c.s[1] = "-" THEN Tail(c.s) ELSE c.s)
         IN  IF InWindow(ts) THEN ts ELSE NaT
    ELSE NaT

datetime_parser(date_value) ==
    LET ts == NumericTier(date_value)
    IN  IF ts.k = "ts" THEN ts
        ELSE IF date_value.k = "str" THEN TryFormats(1, date_value.s)
        ELSE NaT

\* ------------------------------------------------------------ DataFrames

Columns == <<"org_id", "user_id", "credit_type", "action", "credits", "timestamp">>

NoFrame == [cols |-> <<>>, dtype |-> <<>>, rows |-> <<>>]

HasCol(f, name) == \E i \in 1..Len(f.cols) : f.cols[i] = name

\* position of the first column labelled name
ColIdx(f, name) == CHOOSE i \in 1..Len(f.cols) :
                       f.cols[i] = name /\ \A h \in 1..(i - 1) : f.cols[h] # name

\* df[name] for one row
Cell(f, r, name) == r.c[ColIdx(f, name)]

\* every column labelled name held as dtype dt
SetDtype(f, name, dt) ==
    [f EXCEPT !.dtype = Seq1([i \in 1..Len(f.cols) |->
                           IF f.cols[i] = name THEN dt ELSE f.dtype[i]])]

\* df[mask]: the rows whose mask entry is TRUE, in order
RECURSIVE SelectRows(_, _)
SelectRows(rows, mask) ==
    IF rows = <<>> THEN <<>>
    ELSE (IF mask[1] THEN <<rows[1]>> ELSE <<>>)
         \o SelectRows(Tail(rows), Tail(mask))

\* The dtype pandas gives a column read from the tabular source: a column
\* whose present cells are all numbers is numeric (float64 here, NaN for the
\* missing cells); any other column is object and keeps its cells as str.
ColumnIsNumeric(raw, i) ==
    \A n \in 1..Len(raw) : raw[n][i].k = "nan" \/ IsNumericText(raw[n][i].s)

\* The DataFrame handed to transform for the raw records raw (each a tuple
\* of text-or-missing cells in the order of Columns); the index is 0..n-1.
\* The extractor's opportunistic date parse is not modelled: the timestamp
\* column arrives as read.
DataFrame(raw) ==
    [cols  |-> Columns,
     dtype |-> Seq1([i \in 1..Len(Columns) |->
                  IF ColumnIsNumeric(raw, i) THEN "float64" ELSE "object"]),
     rows  |-> Seq1([n \in 1..Len(raw) |->
                  [idx |-> n - 1,
                   c   |-> Seq1([i \in 1..Len(Columns) |->
                              IF raw[n][i].k = "str" /\ ColumnIsNumeric(raw, i)
                              THEN N(raw[n][i].s) ELSE raw[n][i]])]])]

\* ------------------------------------------------------------ sort_values

\* a sorts strictly before b in one key column; missing values sort last
CellLess(a, b) ==
    IF isna(a) THEN FALSE
    ELSE IF isna(b) THEN TRUE
    ELSE IF a.k = "ts" THEN TsLess(a, b)
    ELSE StrLess(a.s, b.s)

CellSame(a, b) == (isna(a) /\ isna(b)) \/ (~isna(a) /\ ~isna(b) /\ a = b)

RECURSIVE KeyLess(_, _, _, _)
KeyLess(f, by, r1, r2) ==
    IF by = <<>> THEN FALSE
    ELSE LET a == Cell(f, r1, by[1])
             b == Cell(f, r2, by[1])
         IN  IF CellSame(a, b) THEN KeyLess(f, Tail(by), r1, r2)
             ELSE CellLess(a, b)

\* x put after every row that does not sort after it (stable)
RECURSIVE InsertRow(_, _, _, _)
InsertRow(f, by, sorted, x) ==
    IF sorted = <<>> THEN <<x>>
    ELSE IF KeyLess(f, by, x, sorted[1]) THEN <<x>> \o sorted
    ELSE <<sorted[1]>> \o InsertRow(f, by, Tail(sorted), x)

RECURSIVE SortRows(_, _, _)
SortRows(f, by, rows) ==
    IF rows = <<>> THEN <<>>
    ELSE InsertRow(f, by, SortRows(f, by, SubSeq(rows, 1, Len(rows) - 1)),
                   rows[Len(rows)])

\* df.sort_values(by) with several keys: pandas' lexsort, which is stable
\* and puts missing keys last
sort_values(f, by) == [f EXCEPT !.rows = SortRows(f, by, f.rows)]

\* -------------------------------------------------------------- transform

\* df.dropna(subset=subset, how="all"): a row goes when every cell of the
\* subset is missing
dropna_all(f, subset) ==
    [f EXCEPT !.rows = SelectRows(f.rows,
        Seq1([n \in 1..Len(f.rows) |->
            \E j \in 1..Len(subset) : ~isna(Cell(f, f.rows[n], subset[j]))]))]

\* df.groupby("user_id")["org_id"].transform("first") at row r: the first
\* org_id that is not missing among the rows of r's user, in the frame's
\* order; missing when the user is missing (no group) or has no org_id
first_orgs(f, r) ==
    LET u    == Cell(f, r, "user_id")
        cand == {n \in 1..Len(f.rows) :
                    /\ Cell(f, f.rows[n], "user_id") = u
                    /\ ~isna(Cell(f, f.rows[n], "org_id"))}
    IN  IF isna(u) \/ cand = {} THEN NaN
        ELSE Cell(f, f.rows[CHOOSE n \in cand : \A m \in cand : n <= m], "org_id")

\* a faulty variant of the comparison below: missing equal to missing
EqualOrMissing(a, b) == a = b

\* df["org_id"] == first_orgs, element by element: a missing value is equal
\* to nothing
SeriesEq(a, b) == ~isna(a) /\ ~isna(b) /\ a = b

\* df[df["org_id"] == first_orgs]
keep_first_org(f) ==
    [f EXCEPT !.rows = SelectRows(f.rows,
        Seq1([n \in 1..Len(f.rows) |->
            SeriesEq(Cell(f, f.rows[n], "org_id"), first_orgs(f, f.rows[n]))]))]

\* pd.to_datetime("1990-01-01 00:00:00")
Sentinel == Timestamp(DaysFromCivil(1990, 1, 1), 0)

\* a faulty variant of the fill below: missing timestamps left as they are
NoFill(c) == c

\* one cell of df["timestamp"].fillna(sentinel)
FillTimestamp(c) == IF isna(c) THEN Sentinel ELSE c

\* one cell of df["credits"].fillna(1.0)
FillCredits(c) == IF isna(c) THEN N(<<"1">>) ELSE c

\* one cell of df["credit_type"].fillna("default")
FillCreditType(c) ==
    IF isna(c) THEN S(<<"d", "e", "f", "a", "u", "l", "t">>) ELSE c

\* a faulty variant of the normalization below: stripped, not lower-cased
StripOnly(c) == IF c.k = "str" THEN S(strip(c.s)) ELSE NaN

\* one cell of col.str.strip().str.lower(): the .str accessor gives a
\* missing value for every cell that is no str
Normalize(c) == IF c.k = "str" THEN S(lower(strip(c.s))) ELSE NaN

\* the element-wise operations transform applies to a column
ApplyTo(op, c) ==
    CASE op = "datetime_parser" -> datetime_parser(c)
      [] op = "fillna_timestamp" -> FillTimestamp(c)
      [] op = "fillna_credits" -> FillCredits(c)
      [] op = "fillna_credit_type" -> FillCreditType(c)
      [] op = "strip_lower" -> Normalize(c)

\* the frame with op applied, cell by cell, to every column labelled name
MapCol(f, name, op) ==
    [f EXCEPT !.rows = Seq1([n \in 1..Len(f.rows) |->
        [idx |-> f.rows[n].idx,
         c   |-> Seq1([i \in 1..Len(f.cols) |->
                    IF f.cols[i] = name THEN ApplyTo(op, f.rows[n].c[i])
                    ELSE f.rows[n].c[i]])]])]

\* df["timestamp"] = df["timestamp"].apply(datetime_parser): a column of
\* Timestamp and NaT, which pandas holds as datetime64
parse_timestamps(f) ==
    SetDtype(MapCol(f, "timestamp", "datetime_parser"), "timestamp", "datetime64")

\* the positions, in order, of the columns from position i on held as dt
RECURSIVE DtypePositions(_, _, _)
DtypePositions(f, dt, i) ==
    IF i > Len(f.cols) THEN <<>>
    ELSE (IF f.dtype[i] = dt THEN <<i>> ELSE <<>>) \o DtypePositions(f, dt, i + 1)

\* the frame restricted to the columns at positions pos
TakeCols(f, pos) ==
    [cols  |-> Seq1([i \in 1..Len(pos) |-> f.cols[pos[i]]]),
     dtype |-> Seq1([i \in 1..Len(pos) |-> f.dtype[pos[i]]]),
     rows  |-> Seq1([n \in 1..Len(f.rows) |->
                  [idx |-> f.rows[n].idx,
                   c   |-> Seq1([i \in 1..Len(pos) |-> f.rows[n].c[pos[i]]])]])]

\* df.select_dtypes("object")
select_dtypes(f, dt) == TakeCols(f, DtypePositions(f, dt, 1))

\* the loop over df_string_cols.columns
RECURSIVE NormalizeCols(_, _)
NormalizeCols(f, i) ==
    IF i > Len(f.cols) THEN f
    ELSE NormalizeCols(MapCol(f, f.cols[i], "strip_lower"), i + 1)

\* pd.concat([a, b], axis=1) of frames with the same index in the same order;
\* labels are not made unique
concat(a, b) ==
    [cols  |-> a.cols \o b.cols,
     dtype |-> a.dtype \o b.dtype,
     rows  |-> Seq1([n \in 1..Len(a.rows) |->
                  [idx |-> a.rows[n].idx, c |-> a.rows[n].c \o b.rows[n].c]])]

KeyError == [raised |-> TRUE, frame |-> NoFrame]

Returned(f) == [raised |-> FALSE, frame |-> f]

\* a faulty variant of the final sort below: the frame returned in the order
\* the single-organization rule left it
NoFinalSort(f) == f

\* df.sort_values(["org_id", "user_id"], inplace=True)
FinalSort(f) == sort_values(f, <<"org_id", "user_id">>)

\* lines 121-125: original_count - len(df) around the dropna, the count the
\* warning "Dropped ... records with missing org_id or user_id" prints (it
\* is printed when positive)
dropped_count(parsed) ==
    LET sorted == sort_values(parsed, <<"user_id", "timestamp">>)
    IN  Len(sorted.rows) - Len(dropna_all(sorted, <<"org_id", "user_id">>).rows)

\* lines 116-158 on the frame whose timestamps are parsed: the value
\* transform returns, or the KeyError it raises when a column it names is no
\* longer in the frame
transform_parsed(parsed) ==
    LET sorted  == sort_values(parsed, <<"user_id", "timestamp">>)
        kept    == dropna_all(sorted, <<"org_id", "user_id">>)
        single  == keep_first_org(kept)
        filled  == MapCol(single, "timestamp", "fillna_timestamp")
        strings == NormalizeCols(select_dtypes(filled, "object"), 1)
        joined  == concat(concat(strings,
                                 TakeCols(filled, <<ColIdx(filled, "credits")>>)),
                          TakeCols(filled, <<ColIdx(filled, "timestamp")>>))
        credits == MapCol(joined, "credits", "fillna_credits")
    IN  IF ~HasCol(credits, "credit_type") THEN KeyError
        ELSE IF ~HasCol(credits, "org_id") \/ ~HasCol(credits, "user_id")
        THEN KeyError
        ELSE Returned(FinalSort(MapCol(credits, "credit_type", "fillna_credit_type")))

transform(f) == transform_parsed(parse_timestamps(f))

\* ------------------------------------------------------------ Org Balance

\* the number a numeric credits cell holds
NumberOf(c) ==
    IF c.s # <<>> /\ c.s[1] = "-" THEN 0 - IntOf(Tail(c.s)) ELSE IntOf(c.s)

\* a faulty variant of the CASE below: any action but 'deduct' counted as
\* credits added
SignedOrCredits(action, credits) ==
    IF action = S(<<"d", "e", "d", "u", "c", "t">>) THEN 0 - NumberOf(credits)
    ELSE NumberOf(credits)

\* CASE WHEN action = 'add' THEN credits WHEN action = 'deduct' THEN -credits
\* ELSE 0 END, for one row
SignedCredits(action, credits) ==
    IF action = S(<<"a", "d", "d">>) THEN NumberOf(credits)
    ELSE IF action = S(<<"d", "e", "d", "u", "c", "t">>) THEN 0 - NumberOf(credits)
    ELSE 0

\* SUM(...) over the rows from position n on whose org_id is org
RECURSIVE SumCredits(_, _, _)
SumCredits(f, org, n) ==
    IF n > Len(f.rows) THEN 0
    ELSE (IF Cell(f, f.rows[n], "org_id") = org
          THEN SignedCredits(IF HasCol(f, "action") THEN Cell(f, f.rows[n], "action")
                             ELSE NaN,
                             Cell(f, f.rows[n], "credits"))
          ELSE 0) + SumCredits(f, org, n + 1)

\* total_credits of the row GROUP BY org_id gives organization org, over
\* the canonical rows f
total_credits(f, org) == SumCredits(f, org, 1)

\* ----------------------------------------------------------- the store

\* A row of user_actions is a record of cells, one per column of the table
\* load creates (src/pipeline/load.py 58-65); SQL NULL is the missing cell.
\* transform fills credits and timestamp, so the rows of a canonical table
\* hold a number and a timestamp there.

Default == S(<<"d", "e", "f", "a", "u", "l", "t">>)

Add == S(<<"a", "d", "d">>)

Deduct == S(<<"d", "e", "d", "u", "c", "t">>)

\* DATE(timestamp): the day of the instant
DATE(ts) == ts.d

\* DATE '1990-01-01'
SentinelDate == DaysFromCivil(1990, 1, 1)

\* SUM over a sequence of numbers
RECURSIVE Sum(_)
Sum(s) == IF s = <<>> THEN 0 ELSE Head(s) + Sum(Tail(s))

\* MIN and MAX over a non-empty set of numbers
Min(set) == CHOOSE x \in set : \A y \in set : x <= y

Max(set) == CHOOSE x \in set : \A y \in set : x >= y

\* x <> 'default' in a WHERE clause: NULL <> 'default' is NULL, not true
NotDefault(x) == ~isna(x) /\ x # Default

\* ROUND((a / b)::numeric, 2) for b > 0, in hundredths; a half is rounded
\* away from zero
Round2(a, b) ==
    IF a < 0 THEN 0 - ((200 * (0 - a) + b) \div (2 * b))
    ELSE (200 * a + b) \div (2 * b)

\* ------------------------------------------------------- reference data

Org000 == S(<<"o", "r", "g", "_", "0", "0", "0">>)

Org001 == S(<<"o", "r", "g", "_", "0", "0", "1">>)

User000 == S(<<"u", "s", "e", "r", "_", "0", "0", "0">>)

User001 == S(<<"u", "s", "e", "r", "_", "0", "0", "1">>)

User002 == S(<<"u", "s", "e", "r", "_", "0", "0", "2">>)

\* the first rows of the organizations table
organizations ==
    {[org_id |-> Org000, org_name |-> "TechCorp Solutions", industry |-> "Technology"],
     [org_id |-> Org001, org_name |-> "Global Finance Ltd",
      industry |-> "Financial Services"]}

\* the first rows of the users table
users ==
    {[user_id |-> User000, user_name |-> "Alice Johnson",
      email |-> "alice.johnson@techcorp.com", org_id |-> Org000, role |-> "Admin"],
     [user_id |-> User001, user_name |-> "Bob Smith",
      email |-> "bob.smith@techcorp.com", org_id |-> Org000, role |-> "Developer"],
     [user_id |-> User002, user_name |-> "Carol Davis",
      email |-> "carol.davis@globalfinance.com", org_id |-> Org001,
      role |-> "Analyst"]}

\* ----------------------------------------------------- Daily Activity view

\* WHERE user_id IS NOT NULL AND org_id IS NOT NULL AND action IS NOT NULL
\*   AND credit_type != 'default'
CsWhere(r) ==
    /\ ~isna(r.user_id)
    /\ ~isna(r.org_id)
    /\ ~isna(r.action)
    /\ NotDefault(r.credit_type)

\* GROUP BY activity_date, org_id, user_id, action, credit_type
CsKey(r) ==
    [activity_date |-> DATE(r.timestamp), org_id |-> r.org_id, user_id |-> r.user_id,
     action |-> r.action, credit_type |-> r.credit_type]

\* a faulty variant of the classification below: the boundaries excluded
usage_level_strict(n) ==
    IF n > 10 THEN "High Usage"
    ELSE IF n > 5 THEN "Medium Usage"
    ELSE IF n > 1 THEN "Low Usage"
    ELSE "No Usage"

\* CASE WHEN COUNT(*) >= 10 ... END AS usage_level
usage_level(n) ==
    IF n >= 10 THEN "High Usage"
    ELSE IF n >= 5 THEN "Medium Usage"
    ELSE IF n >= 1 THEN "Low Usage"
    ELSE "No Usage"

\* the rows of the SELECT of create_cs_view over the rows t of user_actions
CREATE_CS_MV(t) ==
    LET keep == {i \in DOMAIN t : CsWhere(t[i])}
        members(k) == {i \in keep : CsKey(t[i]) = k}
    IN  {[activity_date |-> k.activity_date,
          org_id |-> k.org_id,
          user_id |-> k.user_id,
          action |-> k.action,
          credit_type |-> k.credit_type,
          total_credits_used |->
              Sum([i \in DOMAIN t |->
                      IF i \in members(k) THEN NumberOf(t[i].credits) ELSE 0]),
          action_count |-> Cardinality(members(k)),
          usage_level |-> usage_level(Cardinality(members(k)))]
         : k \in {CsKey(t[i]) : i \in keep}}

\* ------------------------------------------------------- Org Balance view

\* the rows of the SELECT of create_finance_view over the rows t
CREATE_FINANCE_MV(t) ==
    {[org_id |-> o,
      total_credits |->
          Sum([i \in DOMAIN t |->
                  IF t[i].org_id = o THEN SignedCredits(t[i].action, t[i].credits)
                  ELSE 0])]
     : o \in {t[i].org_id : i \in DOMAIN t}}

\* ------------------------------------------------------ Per-user rollup

\* the row of organizations an INNER JOIN ... ON ua.org_id = o.org_id pairs
\* with the row r (org_id is the primary key: at most one)
JoinedOrgs(r) == {o \in organizations : o.org_id = r.org_id}

\* likewise INNER JOIN users u ON ua.user_id = u.user_id
JoinedUsers(r) == {u \in users : u.user_id = r.user_id}

\* a faulty variant of the CASE below: the credits of every action taken
CreditsOfAny(r, action) == NumberOf(r.credits)

\* SUM(CASE WHEN action = 'add' THEN credits ELSE 0 END) and the like
CreditsOf(r, action) == IF r.action = action THEN NumberOf(r.credits) ELSE 0

\* CASE WHEN COUNT(*) >= 50 ... END AS engagement_level
engagement_level(n) ==
    IF n >= 50 THEN "Power User"
    ELSE IF n >= 20 THEN "Active User"
    ELSE IF n >= 5 THEN "Regular User"
    ELSE IF n >= 1 THEN "Light User"
    ELSE "Inactive"

\* a faulty variant of the CASE below: the inactivity test left out
customer_status_no_risk(last, consumed, net, current_date) ==
    IF consumed = 0 THEN "Not Using Credits"
    ELSE IF net < 0 THEN "Low Balance - Upsell Opportunity"
    ELSE "Healthy"

\* CASE WHEN MAX(DATE(timestamp)) < CURRENT_DATE - INTERVAL '30 days' ... END
\* AS customer_status
customer_status(last, consumed, net, current_date) ==
    IF last < current_date - 30 THEN "At Risk - Inactive"
    ELSE IF consumed = 0 THEN "Not Using Credits"
    ELSE IF net < 0 THEN "Low Balance - Upsell Opportunity"
    ELSE "Healthy"

\* the rows of the SELECT of create_enhanced_cs_view over the rows t, on the
\* day current_date
CREATE_ENHANCED_CS_MV(t, current_date) ==
    LET keep == {i \in DOMAIN t : CsWhere(t[i])}
        keys == {<<o, u>> : o \in organizations, u \in users}
        members(k) == {i \in keep : k[1] \in JoinedOrgs(t[i]) /\ k[2] \in JoinedUsers(t[i])}
        dates(k) == {DATE(t[i].timestamp) : i \in members(k)}
        total(k, action) ==
            Sum([i \in DOMAIN t |-> IF i \in members(k) THEN CreditsOf(t[i], action) ELSE 0])
        count(k, action) == Cardinality({i \in members(k) : t[i].action = action})
    IN  {[organization |-> k[1].org_name,
          industry |-> k[1].industry,
          user_name |-> k[2].user_name,
          user_role |-> k[2].role,
          user_email |-> k[2].email,
          first_activity_date |-> Min(dates(k)),
          last_activity_date |-> Max(dates(k)),
          active_days |-> Cardinality(dates(k)),
          net_credit_balance |-> total(k, Add) - total(k, Deduct),
          total_credits_purchased |-> total(k, Add),
          total_credits_consumed |-> total(k, Deduct),
          total_actions |-> Cardinality(members(k)),
          purchase_actions |-> count(k, Add),
          usage_actions |-> count(k, Deduct),
          engagement_level |-> engagement_level(Cardinality(members(k))),
          customer_status |->
              customer_status(Max(dates(k)), total(k, Deduct),
                              total(k, Add) - total(k, Deduct), current_date),
          avg_daily_usage |-> Round2(total(k, Deduct), Cardinality(dates(k)))]
         : k \in {k \in keys : members(k) # {}}}

\* --------------------------------------------- Per-organization rollup

\* CASE WHEN SUM(...) > 0 ... END AS invoice_status
invoice_status(net) ==
    IF net > 0 THEN "In Credit - No Action Required"
    ELSE IF net < 0 THEN "In Debit - Invoice Required"
    ELSE "Balanced - No Action Required"

\* the rows of the SELECT of create_enhanced_finance_view over the rows t
CREATE_ENHANCED_FINANCE_MV(t) ==
    LET members(o) == {i \in DOMAIN t : o \in JoinedOrgs(t[i])}
        total(o, action) ==
            Sum([i \in DOMAIN t |-> IF i \in members(o) THEN CreditsOf(t[i], action) ELSE 0])
        net(o) ==
            Sum([i \in DOMAIN t |->
                    IF i \in members(o) THEN SignedCredits(t[i].action, t[i].credits)
                    ELSE 0])
        volume(o) ==
            Sum([i \in DOMAIN t |-> IF i \in members(o) THEN NumberOf(t[i].credits) ELSE 0])
    IN  {[organization |-> o.org_name,
          industry |-> o.industry,
          org_id |-> o.org_id,
          net_credit_balance |-> net(o),
          total_credits_added |-> total(o, Add),
          total_credits_used |-> total(o, Deduct),
          active_users |-> Cardinality({t[i].user_id : i \in members(o)}),
          total_transactions |-> Cardinality(members(o)),
          invoice_status |-> invoice_status(net(o)),
          avg_transaction_value |-> Round2(volume(o), Cardinality(members(o)))]
         : o \in {o \in organizations : members(o) # {}}}

\* ---------------------------------------------------- Executive summary

\* a date column that is NULL
NullDate == 0 - 1

\* the rows of user_actions the two correlated subqueries read for the
\* organization o: WHERE org_id = o.org_id, nothing else
SubqueryRows(t, o) == {i \in DOMAIN t : t[i].org_id = o.org_id}

\* the actions GROUP BY action ORDER BY COUNT(*) DESC LIMIT 1 may return:
\* those of the highest count (NULL is a group of its own)
PrimaryActions(t, o) ==
    LET acts == {t[i].action : i \in SubqueryRows(t, o)}
        count(a) == Cardinality({i \in SubqueryRows(t, o) : t[i].action = a})
    IN  {a \in acts : \A b \in acts : count(a) >= count(b)}

\* the names GROUP BY user_name ORDER BY COUNT(*) DESC LIMIT 1 may return
MostActiveUsers(t, o) ==
    LET names == {u.user_name : u \in UNION {JoinedUsers(t[i]) : i \in SubqueryRows(t, o)}}
        count(n) == Cardinality({i \in SubqueryRows(t, o) :
                                    \E u \in JoinedUsers(t[i]) : u.user_name = n})
    IN  {n \in names : \A m \in names : count(n) >= count(m)}

\* the rows the outer query groups under the organization o
ExecMembers(t, o) ==
    {i \in DOMAIN t : /\ NotDefault(t[i].credit_type)
                      /\ o \in JoinedOrgs(t[i])
                      /\ JoinedUsers(t[i]) # {}}

\* the row of the organization o, with the two picks of the subqueries
ExecRow(t, o, action, user) ==
    LET m == ExecMembers(t, o)
        dates == {DATE(t[i].timestamp) : i \in m}
        later == {d \in dates : d > SentinelDate}
        volume == Sum([i \in DOMAIN t |-> IF i \in m THEN NumberOf(t[i].credits) ELSE 0])
    IN  [organization |-> o.org_name,
         industry |-> o.industry,
         total_users |-> Cardinality({t[i].user_id : i \in m}),
         active_days |-> Cardinality(dates),
         total_credit_volume |-> volume,
         total_actions |-> Cardinality(m),
         avg_credit_per_action |-> Round2(volume, Cardinality(m)),
         primary_action_type |-> action,
         most_active_user |-> user,
         first_activity |-> IF later = {} THEN NullDate ELSE Min(later),
         last_activity |-> Max(dates)]

\* The results the SELECT of create_executive_summary_view may have over the
\* rows t: one for every way the store breaks the ties of the subqueries.
CREATE_EXEC_SUMMARY_MV(t) ==
    LET orgs == {o \in organizations : ExecMembers(t, o) # {}}
        picks == UNION {PrimaryActions(t, o) \X MostActiveUsers(t, o) : o \in orgs}
    IN  {{ExecRow(t, o, f[o][1], f[o][2]) : o \in orgs}
         : f \in {g \in [orgs -> picks] :
                     \A o \in orgs : g[o] \in PrimaryActions(t, o) \X MostActiveUsers(t, o)}}

\* ------------------------------------------------------------ view names

\* The names run_pipeline.py gives the views, as text.
\* "customer_success_daily_activity"
CsView ==
    <<"c", "u", "s", "t", "o", "m", "e", "r", "_", "s", "u", "c", "c", "e",
    "s", "s", "_", "d", "a", "i", "l", "y", "_", "a", "c", "t", "i", "v", "i",
    "t", "y">>

\* "finance_org_credit_balance"
FinanceView ==
    <<"f", "i", "n", "a", "n", "c", "e", "_", "o", "r", "g", "_", "c", "r",
    "e", "d", "i", "t", "_", "b", "a", "l", "a", "n", "c", "e">>

\* "enhanced_customer_success_view"
EnhancedCsView ==
    <<"e", "n", "h", "a", "n", "c", "e", "d", "_", "c", "u", "s", "t", "o",
    "m", "e", "r", "_", "s", "u", "c", "c", "e", "s", "s", "_", "v", "i", "e",
    "w">>

\* "enhanced_finance_view"
EnhancedFinanceView ==
    <<"e", "n", "h", "a", "n", "c", "e", "d", "_", "f", "i", "n", "a", "n",
    "c", "e", "_", "v", "i", "e", "w">>

\* "executive_summary_view"
ExecutiveView ==
    <<"e", "x", "e", "c", "u", "t", "i", "v", "e", "_", "s", "u", "m", "m",
    "a", "r", "y", "_", "v", "i", "e", "w">>

\* "enhanced"
Enhanced ==
    <<"e", "n", "h", "a", "n", "c", "e", "d">>

\* "executive"
Executive ==
    <<"e", "x", "e", "c", "u", "t", "i", "v", "e">>

ViewNames == {CsView, FinanceView, EnhancedCsView, EnhancedFinanceView, ExecutiveView}

\* sub in s, on text
Contains(sub, s) ==
    \E i \in 0..(Len(s) - Len(sub)) : SubSeq(s, i + 1, i + Len(sub)) = sub

\* ----------------------------------------------------------- statements

\* The store: the table user_actions, the materialized views by name and
\* the indexes of the schema (index names are unique in the schema).
NoTable == [exists |-> FALSE, rows |-> <<>>]

NoView == [def |-> "none", rows |-> {}]

EmptyStore ==
    [user_actions |-> NoTable,
     matviews |-> [v \in ViewNames |-> NoView],
     indexes |-> {}]

\* the results the defining SELECT def may have over the store d
Outcomes(def, d, current_date) ==
    CASE def = "CREATE_CS_MV" -> {CREATE_CS_MV(d.user_actions.rows)}
      [] def = "CREATE_FINANCE_MV" -> {CREATE_FINANCE_MV(d.user_actions.rows)}
      [] def = "CREATE_ENHANCED_CS_MV" ->
             {CREATE_ENHANCED_CS_MV(d.user_actions.rows, current_date)}
      [] def = "CREATE_ENHANCED_FINANCE_MV" ->
             {CREATE_ENHANCED_FINANCE_MV(d.user_actions.rows)}
      [] def = "CREATE_EXEC_SUMMARY_MV" -> CREATE_EXEC_SUMMARY_MV(d.user_actions.rows)
      [] OTHER -> {{}}

\* a faulty variant of the drop below: the view left in place
KeepMatView(name, d) == d

\* the store after DROP MATERIALIZED VIEW IF EXISTS name [CASCADE]: the view
\* goes with the indexes on it (nothing else depends on a view here)
DropMatView(name, d) ==
    [d EXCEPT !.matviews[name] = NoView,
              !.indexes = {x \in d.indexes : x.on # name}]

\* no two rows agree on all of cols
Unique(rows, cols) ==
    \A r1, r2 \in rows : (\A c \in cols : r1[c] = r2[c]) => r1 = r2

\* a unique index on the view, which REFRESH ... CONCURRENTLY needs
HasUniqueIndex(name, d) == \E x \in d.indexes : x.on = name /\ x.unique

\* conn.execute(stmt) on the store d: whether the statement succeeds, and
\* the store after it
Exec(stmt, d) ==
    CASE stmt.op = "DROP MATERIALIZED VIEW" ->
             [ok |-> TRUE, db |-> DropMatView(stmt.name, d)]
      [] stmt.op = "CREATE MATERIALIZED VIEW" ->
             IF d.matviews[stmt.name] # NoView
             THEN [ok |-> stmt.if_not_exists, db |-> d]
             ELSE IF ~d.user_actions.exists
             THEN [ok |-> FALSE, db |-> d]
             ELSE [ok |-> TRUE,
                   db |-> [d EXCEPT !.matviews[stmt.name] =
                                        [def |-> stmt.def, rows |-> stmt.rows]]]
      [] stmt.op = "CREATE INDEX" ->
             IF \E x \in d.indexes : x.name = stmt.name
             THEN [ok |-> TRUE, db |-> d]
             ELSE IF d.matviews[stmt.on] = NoView
             THEN [ok |-> FALSE, db |-> d]
             ELSE IF stmt.unique /\ ~Unique(d.matviews[stmt.on].rows, stmt.cols)
             THEN [ok |-> FALSE, db |-> d]
             ELSE [ok |-> TRUE,
                   db |-> [d EXCEPT !.indexes =
                                        @ \cup {[name |-> stmt.name, on |-> stmt.on,
                                                 unique |-> stmt.unique]}]]
      [] stmt.op = "DROP INDEX" ->
             [ok |-> TRUE,
              db |-> [d EXCEPT !.indexes = {x \in @ : x.name # stmt.name}]]
      [] stmt.op = "REFRESH MATERIALIZED VIEW" ->
             IF d.matviews[stmt.name] = NoView
             THEN [ok |-> FALSE, db |-> d]
             ELSE IF stmt.concurrently /\ ~HasUniqueIndex(stmt.name, d)
             THEN [ok |-> FALSE, db |-> d]
             ELSE [ok |-> TRUE, db |-> [d EXCEPT !.matviews[stmt.name].rows = stmt.rows]]
      [] stmt.op = "DROP TABLE" ->
             [ok |-> TRUE,
              db |-> [user_actions |-> NoTable,
                      matviews |-> [v \in ViewNames |-> NoView],
                      indexes |-> {}]]
      [] stmt.op = "CREATE TABLE" ->
             [ok |-> TRUE,
              db |-> IF d.user_actions.exists THEN d
                     ELSE [d EXCEPT !.user_actions = [exists |-> TRUE, rows |-> <<>>]]]
      [] stmt.op = "INSERT" ->
             IF ~d.user_actions.exists THEN [ok |-> FALSE, db |-> d]
             ELSE [ok |-> TRUE, db |-> [d EXCEPT !.user_actions.rows = @ \o stmt.rows]]

\* the statements from position n on, in order, up to the first that fails;
\* fault is the position of a statement the store fails for a reason of its
\* own (connection lost, ...), 0 for none
RECURSIVE Execute(_, _, _, _)
Execute(stmts, n, fault, d) ==
    IF n > Len(stmts) THEN [ok |-> TRUE, db |-> d]
    ELSE IF n = fault THEN [ok |-> FALSE, db |-> d]
    ELSE LET r == Exec(stmts[n], d)
         IN  IF r.ok THEN Execute(stmts, n + 1, fault, r.db) ELSE r

\* a faulty variant of the block below: what ran before a failure is kept
NoRollback(stmts, fault, d) ==
    LET r == Execute(stmts, 1, fault, d)
    IN  [ok |-> r.ok /\ fault # Len(stmts) + 1, db |-> r.db]

\* with engine.connect() as conn: conn.execute(...) ...; conn.commit()
\* The statements run in one transaction; the commit is position
\* Len(stmts) + 1; leaving the block on an exception rolls back.
Transaction(stmts, fault, d) ==
    LET r == Execute(stmts, 1, fault, d)
    IN  IF r.ok /\ fault # Len(stmts) + 1 THEN [ok |-> TRUE, db |-> r.db]
        ELSE [ok |-> FALSE, db |-> d]

\* ---------------------------------------------------------- view builds

\* a faulty variant of the handler below: the exception let through
Reraised(r) == [raised |-> ~r.ok, ok |-> r.ok, db |-> r.db]

\* try: ...; return True / except Exception: print(...); return False
BuildResult(r) == [raised |-> FALSE, ok |-> r.ok, db |-> r.db]

create_cs_view(view_name, fault, d) ==
    BuildResult(Transaction(
        <<[op |-> "DROP MATERIALIZED VIEW", name |-> view_name, cascade |-> FALSE],
          [op |-> "CREATE MATERIALIZED VIEW", name |-> view_name,
           def |-> "CREATE_CS_MV", if_not_exists |-> TRUE,
           rows |-> CREATE_CS_MV(d.user_actions.rows)],
          [op |-> "CREATE INDEX", name |-> "idx_cs_daily_activity_unique",
           on |-> view_name, unique |-> TRUE,
           cols |-> {"activity_date", "org_id", "user_id", "action", "credit_type"}]>>,
        fault, d))

create_finance_view(view_name, fault, d) ==
    BuildResult(Transaction(
        <<[op |-> "DROP MATERIALIZED VIEW", name |-> view_name, cascade |-> FALSE],
          [op |-> "CREATE MATERIALIZED VIEW", name |-> view_name,
           def |-> "CREATE_FINANCE_MV", if_not_exists |-> TRUE,
           rows |-> CREATE_FINANCE_MV(d.user_actions.rows)],
          [op |-> "CREATE INDEX", name |-> "idx_finance_org_credit_balance_org_id",
           on |-> view_name, unique |-> TRUE, cols |-> {"org_id"}]>>,
        fault, d))

create_enhanced_cs_view(view_name, current_date, fault, d) ==
    BuildResult(Transaction(
        <<[op |-> "DROP INDEX", name |-> "idx_enhanced_cs_activity_date"],
          [op |-> "DROP INDEX", name |-> "idx_enhanced_cs_organization"],
          [op |-> "DROP MATERIALIZED VIEW", name |-> view_name, cascade |-> TRUE],
          [op |-> "CREATE MATERIALIZED VIEW", name |-> view_name,
           def |-> "CREATE_ENHANCED_CS_MV", if_not_exists |-> FALSE,
           rows |-> CREATE_ENHANCED_CS_MV(d.user_actions.rows, current_date)],
          [op |-> "CREATE INDEX", name |-> "idx_enhanced_cs_activity_date",
           on |-> view_name, unique |-> FALSE, cols |-> {"first_activity_date"}],
          [op |-> "CREATE INDEX", name |-> "idx_enhanced_cs_organization",
           on |-> view_name, unique |-> FALSE, cols |-> {"organization"}]>>,
        fault, d))

create_enhanced_finance_view(view_name, fault, d) ==
    BuildResult(Transaction(
        <<[op |-> "DROP INDEX", name |-> "idx_enhanced_finance_org_id"],
          [op |-> "DROP INDEX", name |-> "idx_enhanced_finance_balance"],
          [op |-> "DROP MATERIALIZED VIEW", name |-> view_name, cascade |-> TRUE],
          [op |-> "CREATE MATERIALIZED VIEW", name |-> view_name,
           def |-> "CREATE_ENHANCED_FINANCE_MV", if_not_exists |-> FALSE,
           rows |-> CREATE_ENHANCED_FINANCE_MV(d.user_actions.rows)],
          [op |-> "CREATE INDEX", name |-> "idx_enhanced_finance_org_id",
           on |-> view_name, unique |-> TRUE, cols |-> {"org_id"}],
          [op |-> "CREATE INDEX", name |-> "idx_enhanced_finance_balance",
           on |-> view_name, unique |-> FALSE, cols |-> {"net_credit_balance"}]>>,
        fault, d))

\* rows is the result the store gives the SELECT, one of
\* CREATE_EXEC_SUMMARY_MV(d.user_actions.rows)
create_executive_summary_view(view_name, rows, fault, d) ==
    BuildResult(Transaction(
        <<[op |-> "DROP MATERIALIZED VIEW", name |-> view_name, cascade |-> TRUE],
          [op |-> "CREATE MATERIALIZED VIEW", name |-> view_name,
           def |-> "CREATE_EXEC_SUMMARY_MV", if_not_exists |-> FALSE,
           rows |-> rows]>>,
        fault, d))

\* ------------------------------------------------------- check_mat_view

\* a faulty variant of the test below: only "enhanced" looked for
EnhancedOnly(view_name) == Contains(Enhanced, view_name)

\* if "enhanced" in view_name or "executive" in view_name
QueriedDirectly(view_name) ==
    Contains(Enhanced, view_name) \/ Contains(Executive, view_name)

\* a faulty variant of the clause below: the blocking refresh run in any case
FallbackAlways(concurrent_ok) == TRUE

\* a faulty variant of the clause below: no inner handler, nothing catches
\* the failure of the concurrent refresh
FallbackNever(concurrent_ok) == FALSE

\* except Exception: the blocking refresh runs when the try block raised
FallbackRuns(concurrent_ok) == ~concurrent_ok

\* refresh_mv executed and committed on a connection of its own; rows is the
\* result the store gives the view's SELECT
Refresh(view_name, concurrently, rows, fault, d) ==
    Transaction(<<[op |-> "REFRESH MATERIALIZED VIEW", name |-> view_name,
                   concurrently |-> concurrently, rows |-> rows]>>, fault, d)

\* pd.read_sql_query(exec_view, engine): the rows of the view, or an error
\* when the view does not exist or the store fails
ReadView(view_name, fault, d) ==
    IF fault \/ d.matviews[view_name] = NoView
    THEN [ok |-> FALSE, rows |-> {}]
    ELSE [ok |-> TRUE, rows |-> d.matviews[view_name].rows]

\* ----------------------------------------------------------------- load

\* a faulty variant of load below: the table kept and appended to
append_only(batch, fault, d) ==
    LET made == Transaction(<<[op |-> "CREATE TABLE"]>>, fault, d)
        filled == Transaction(<<[op |-> "INSERT", rows |-> batch]>>,
                              IF fault = 4 THEN 1 ELSE 0, made.db)
    IN  IF ~made.ok THEN [raised |-> FALSE, ok |-> FALSE, db |-> d]
        ELSE [raised |-> FALSE, ok |-> filled.ok, db |-> filled.db]

\* load(df, table_name): the table dropped (with what depends on it) and
\* created in one transaction, then the rows appended by to_sql in another.
\* fault = 1..3: the first transaction fails; fault = 4: to_sql fails.
\* Every exception is printed and swallowed.
load(batch, fault, d) ==
    LET made == Transaction(<<[op |-> "DROP TABLE", cascade |-> TRUE],
                              [op |-> "CREATE TABLE"]>>, fault, d)
        filled == Transaction(<<[op |-> "INSERT", rows |-> batch]>>,
                              IF fault = 4 THEN 1 ELSE 0, made.db)
    IN  IF ~made.ok THEN [raised |-> FALSE, ok |-> FALSE, db |-> d]
        ELSE [raised |-> FALSE, ok |-> filled.ok, db |-> filled.db]

\* ----------------------------------------------------------- validation

\* check_result, lines 71-76: the warning printed on the record count
data_quality(total_records) ==
    IF total_records = 0 THEN "Empty"
    ELSE IF total_records < 10 THEN "Sparse"
    ELSE "Passed"

\* check_mat_view, lines 87-90: the warning printed on len(result_df)
view_validation(n) == IF n = 0 THEN "Empty" ELSE "Passed"

\* check_result(table_name): the count and the sample are read; an exception
\* (no such table, store failure) is printed and swallowed
check_result(fault, d) ==
    IF fault \/ ~d.user_actions.exists
    THEN [raised |-> FALSE, ok |-> FALSE, verdict |-> "Failed"]
    ELSE [raised |-> FALSE, ok |-> TRUE,
          verdict |-> data_quality(Len(d.user_actions.rows))]

\* ------------------------------------------------------------ the caller

\* no call of check_mat_view yet
NoCall == [view |-> <<>>, at |-> "Idle", issued |-> <<>>]

\* nothing returned yet
NoReturn ==
    [op |-> "none", view |-> <<>>, raised |-> FALSE, ok |-> FALSE, rows |-> {},
     again |-> FALSE, batch |-> <<>>, verdict |-> "none"]

\* ----------------------------------------------------------- raw records

\* Sample texts of the raw records.
TsIso1 == S(<<"2", "0", "2", "4", "-", "0", "1", "-", "0", "1", " ", "0", "0", ":", "0", "0", ":", "0", "0">>)

TsIso2 == S(<<"2", "0", "2", "4", "-", "0", "1", "-", "0", "2", " ", "0", "0", ":", "0", "0", ":", "0", "0">>)

TsIso3 == S(<<"2", "0", "2", "4", "-", "0", "1", "-", "0", "3", " ", "0", "0", ":", "0", "0", ":", "0", "0">>)

TsEarly == S(<<"2", "0", "2", "3", "-", "0", "6", "-", "1", "5", " ", "0", "8", ":", "3", "0", ":", "0", "0">>)

TsEuropean == S(<<"1", "9", "-", "1", "2", "-", "2", "0", "2", "4">>)

TsUS == S(<<"1", "0", "/", "2", "9", "/", "2", "0", "2", "4", " ", "1", "2", ":", "0", "0", " ", "A", "M">>)

TsGarbage == S(<<"n", "o", "t", "-", "a", "-", "d", "a", "t", "e">>)

TsBadMonth == S(<<"2", "0", "2", "4", "-", "1", "3", "-", "0", "1", " ", "0", "0", ":", "0", "0", ":", "0", "0">>)

TsEpoch == S(<<"1", "7", "0", "0", "0", "0", "0", "0", "0", "0">>)

TsEpochStart == S(<<"6", "3", "1", "1", "5", "2", "0", "0", "0">>)

TsEpochBeforeStart == S(<<"6", "3", "1", "1", "5", "1", "9", "9", "9">>)

TsEpochEnd == S(<<"2", "5", "2", "4", "6", "0", "8", "0", "0", "0">>)

TsEpochAfterEnd == S(<<"2", "5", "2", "4", "6", "0", "8", "0", "0", "1">>)

TsEpochNegative == S(<<"-", "5">>)

TsCompactDate == S(<<"2", "0", "2", "4", "0", "1", "0", "1">>)

OrgA == S(<<"A">>)

OrgAPadded == S(<<" ", "A", " ">>)

OrgB == S(<<"B">>)

User1 == S(<<"u", "1">>)

User1Upper == S(<<"U", "1">>)

Premium == S(<<"P", "r", "e", "m", "i", "u", "m">>)

Blank == S(<<" ", " ">>)

ActAdd == S(<<"a", "d", "d">>)

ActAddCapital == S(<<"A", "d", "d">>)

ActDeduct == S(<<"d", "e", "d", "u", "c", "t">>)

ActRefund == S(<<" ", "R", "e", "f", "u", "n", "d">>)

Cr10 == S(<<"1", "0">>)

Cr3 == S(<<"3">>)

Cr5 == S(<<"5">>)

CrMalformed == S(<<"a", "b", "c">>)

\* a raw record: one cell per column, in the order of Columns
Row(org, user, ctype, action, credits, ts) == <<org, user, ctype, action, credits, ts>>

\* the record the samples below vary
BaseRow == Row(OrgA, User1, Premium, ActAdd, Cr10, TsIso2)

\* records that differ in their identifiers
IdRows == {Row(o, User1, Premium, ActAdd, Cr10, TsIso2) :
              o \in {NaN, OrgA, OrgAPadded, OrgB}}
          \cup {Row(o, User1Upper, Premium, ActAdd, Cr10, TsIso2) :
                   o \in {OrgA, OrgB}}
          \cup {Row(o, NaN, Premium, ActAdd, Cr10, TsIso2) : o \in {NaN, OrgA}}

\* records of one user that differ in organization and in time
TimeRows == {Row(OrgB, User1, Premium, ActAdd, Cr10, ts) : ts \in {NaN, TsEarly}}
            \cup {Row(NaN, User1, Premium, ActAdd, Cr10, TsEarly),
                  Row(OrgA, User1, Premium, ActAdd, Cr10, NaN)}

\* records that differ in one of credit_type, action and credits
FieldRows == {Row(OrgA, User1, ct, ActAdd, Cr10, TsIso2) : ct \in {NaN, Blank}}
             \cup {Row(OrgA, User1, Premium, a, Cr10, TsIso2) :
                      a \in {NaN, ActDeduct, ActRefund}}
             \cup {Row(OrgA, User1, Premium, ActAdd, c, TsIso2) :
                      c \in {NaN, Cr3, CrMalformed}}
             \cup {BaseRow, Row(OrgB, User1Upper, Premium, ActAdd, Cr10, NaN)}

\* records that differ in the form of the timestamp
ParserRows == {Row(OrgA, User1, Premium, ActAdd, Cr10, ts) :
                  ts \in {TsEuropean, TsUS, TsGarbage, TsBadMonth, TsEpoch,
                          TsEpochStart, TsEpochBeforeStart, TsEpochEnd,
                          TsEpochAfterEnd, TsEpochNegative, TsCompactDate}}

\* the three records of the organization-balance scenario
Scenario == <<Row(OrgAPadded, User1, Premium, ActAddCapital, Cr10, TsIso1),
              Row(OrgA, User1, Premium, ActDeduct, Cr3, TsIso2),
              Row(OrgB, User1, Premium, ActAdd, Cr5, TsIso3)>>

ScenarioRows == {Scenario[i] : i \in 1..3}

MaxRows == 2

MaxScenarioRows == 3

SeqsUpTo(rows, n) == UNION {[1..k -> rows] : k \in 1..n}

\* The batches of raw records: up to MaxRows records of one family of
\* samples, or up to MaxScenarioRows records of the scenario.
Inputs == SeqsUpTo(IdRows \cup TimeRows, MaxRows)
          \cup SeqsUpTo(FieldRows, MaxRows)
          \cup SeqsUpTo(ParserRows, MaxRows)
          \cup SeqsUpTo(ScenarioRows, MaxScenarioRows)

\* ------------------------------------------------------ canonical batches

\* Sample rows of a transformed batch: text normalized, credits a number,
\* timestamp filled.
PremiumType == S(<<"p", "r", "e", "m", "i", "u", "m">>)

Refund == S(<<"r", "e", "f", "u", "n", "d">>)

\* an organization the reference data does not hold
OrgUnknown == S(<<"o", "r", "g", "_", "x">>)

Day1 == DaysFromCivil(2024, 1, 1)

Day2 == DaysFromCivil(2024, 1, 2)

Record(org, user, ctype, action, credits, day) ==
    [org_id |-> org, user_id |-> user, credit_type |-> ctype, action |-> action,
     credits |-> N(credits), timestamp |-> Timestamp(day, 0)]

\* the record the usage levels are counted on
Repeated == Record(Org000, User000, PremiumType, Add, <<"1", "0">>, Day1)

Records ==
    {Repeated,
     Record(Org000, User000, PremiumType, Deduct, <<"3">>, Day2),
     Record(Org000, User000, Default, Add, <<"5">>, Day1),
     Record(Org000, User001, PremiumType, Add, <<"1", "0">>, SentinelDate),
     Record(Org000, User001, PremiumType, Deduct, <<"1", "2">>, Day2),
     Record(Org000, User000, PremiumType, Deduct, <<"-", "3">>, Day2),
     Record(Org001, User000, PremiumType, Deduct, <<"3">>, Day2),
     Record(Org001, User002, PremiumType, NaN, <<"1">>, Day1),
     Record(OrgUnknown, User002, PremiumType, Refund, <<"1", "0">>, Day1)}

MaxBatchRows == 2

MaxCopies == 10

\* batch is in the (org_id, user_id) order transform returns its rows in
SortedBatch(batch) ==
    \A n \in 1..(Len(batch) - 1) :
        \/ StrLess(batch[n].org_id.s, batch[n + 1].org_id.s)
        \/ /\ batch[n].org_id = batch[n + 1].org_id
           /\ ~StrLess(batch[n + 1].user_id.s, batch[n].user_id.s)

\* The batches handed to load: up to MaxBatchRows sample records in the order
\* transform leaves them, or up to MaxCopies copies of one record.
Batches ==
    {b \in {<<>>} \cup SeqsUpTo(Records, MaxBatchRows) : SortedBatch(b)}
    \cup {[i \in 1..n |-> Repeated] : n \in 1..MaxCopies}

\* the batch of the runs against a store that may fail
FewBatches == {<<Repeated, Record(Org000, User000, PremiumType, Deduct, <<"3">>, Day2)>>}

\* the days a run may take place on: 30 days after Day1, and 31 days after
\* it (30 days after Day2)
CurrentDates == {DaysFromCivil(2024, 1, 31), DaysFromCivil(2024, 2, 1)}

\* ---------------------------------------------------------- state machine

\* input : the raw records, as handed over (never changed)
\* df    : the caller's DataFrame, the argument of transform
\* out   : the frame the last call of transform returned
\* prev  : <<the frame the first call returned>> once a later call has
\*         returned, else <<>>
\* pc    : "ready" before the first call, "returned" after a call that
\*         returned, "raised" after a call that raised
Init ==
    /\ input \in Inputs
    /\ df = DataFrame(input)
    /\ out = NoFrame
    /\ prev = <<>>
    /\ pc = "ready"
    /\ db = EmptyStore
    /\ today = DaysFromCivil(2024, 1, 15)
    /\ stage = 1
    /\ call = NoCall
    /\ ret = NoReturn
    /\ unreliable = FALSE

\* One call transform(df) by the caller, who may call again after a call
\* that returned.  The assignment of line 114 is made on the caller's frame,
\* which keeps the parsed timestamp column after the call; when a KeyError
\* is raised the except clause prints and re-raises, and nothing is returned.
Transform ==
    /\ pc \in {"ready", "returned"}
    /\ LET parsed == parse_timestamps(df)
           result == transform_parsed(parsed)
       IN  /\ df' = parsed
           /\ out' = result.frame
           /\ pc' = IF result.raised THEN "raised" ELSE "returned"
           /\ prev' = IF pc = "returned" /\ prev = <<>> THEN <<out>> ELSE prev
    /\ UNCHANGED <<input, db, today, stage, call, ret, unreliable>>

Next == Transform

Spec == Init /\ [][Next]_vars

\* ------------------------------------------- state machine of the views

\* db    : the store
\* today : CURRENT_DATE
\* stage : the position of run_pipeline.py in Script; past its end once the
\*         run is over, 0 when an exception ended the run
\* call  : the call of check_mat_view under way or just over: its view, where
\*         it is, and the refresh statements it has issued with their
\*         outcomes; NoCall when another operation was called since
\* ret   : what the last operation returned (ok: True or a DataFrame, with
\*         its rows), and for a build whether it found its view in place,
\*         built before over the same user_actions; for load the batch it
\*         was given and whether it found rows of an earlier run; for a
\*         validation the verdict it printed; NoReturn while a call is
\*         under way
\* unreliable : whether the store may fail a statement for a reason of its
\*         own (connection lost, lock timeout, ...) in this behaviour

\* run_pipeline.py from load on: lines 26, 30, 33-49 and 53-59
Script ==
    <<[op |-> "load", view |-> <<>>],
      [op |-> "check_result", view |-> <<>>],
      [op |-> "create_cs_view", view |-> CsView],
      [op |-> "create_finance_view", view |-> FinanceView],
      [op |-> "create_enhanced_cs_view", view |-> EnhancedCsView],
      [op |-> "create_enhanced_finance_view", view |-> EnhancedFinanceView],
      [op |-> "create_executive_summary_view", view |-> ExecutiveView],
      [op |-> "check_mat_view", view |-> CsView],
      [op |-> "check_mat_view", view |-> FinanceView],
      [op |-> "check_mat_view", view |-> EnhancedCsView],
      [op |-> "check_mat_view", view |-> EnhancedFinanceView],
      [op |-> "check_mat_view", view |-> ExecutiveView]>>

Aborted == 0

Running == stage \in DOMAIN Script

InCall == call.at \in {"NotRefreshed", "ConcurrentAttempted", "FallbackAttempted"}

\* the operation is the next of the running pipeline, or the pipeline is
\* over and the operation is called on its own
Callable(op, view) ==
    /\ ~InCall
    /\ IF Running THEN Script[stage] = [op |-> op, view |-> view] ELSE TRUE

\* the pipeline after an operation: the next line, or the except clause of
\* run_pipeline.py (line 61) when the operation raised
After(raised) ==
    IF ~Running THEN stage
    ELSE IF raised THEN Aborted
    ELSE stage + 1

\* the positions at which the store may fail one of n statements (n counts
\* the commit); 0 is no failure
Faults(n) == IF unreliable THEN 0..n ELSE {0}

\* A fresh store before the first load.
Fresh ==
    /\ db = EmptyStore
    /\ stage = 1
    /\ call = NoCall
    /\ ret = NoReturn
    /\ input = <<>>
    /\ df = NoFrame
    /\ out = NoFrame
    /\ prev = <<>>
    /\ pc = "loading"

ViewInit == Fresh /\ unreliable = TRUE /\ today = Min(CurrentDates)

ReliableInit == Fresh /\ unreliable = FALSE /\ today \in CurrentDates

\* a further run of the pipeline
RunPipeline ==
    /\ ~Running
    /\ ~InCall
    /\ stage' = 1
    /\ call' = NoCall
    /\ ret' = NoReturn
    /\ UNCHANGED <<db, today, unreliable, input, df, out, prev, pc>>

\* load(transformed, "user_actions") with one of batches
Load(batches) ==
    /\ Running
    /\ Script[stage].op = "load"
    /\ \E batch \in batches, fault \in Faults(4) :
          LET r == load(batch, fault, db)
          IN  /\ db' = r.db
              /\ ret' = [op |-> "load", view |-> <<>>, raised |-> r.raised,
                         ok |-> r.ok, rows |-> {},
                         again |-> db.user_actions.rows # <<>>,
                         batch |-> batch, verdict |-> "none"]
              /\ stage' = After(r.raised)
    /\ call' = NoCall
    /\ UNCHANGED <<today, unreliable, input, df, out, prev, pc>>

\* check_result("user_actions")
CheckResult ==
    /\ Callable("check_result", <<>>)
    /\ \E fault \in {f > 0 : f \in Faults(1)} :
          LET r == check_result(fault, db)
          IN  /\ ret' = [op |-> "check_result", view |-> <<>>, raised |-> r.raised,
                         ok |-> r.ok, rows |-> {}, again |-> FALSE,
                         batch |-> <<>>, verdict |-> r.verdict]
              /\ stage' = After(r.raised)
    /\ call' = NoCall
    /\ UNCHANGED <<db, today, unreliable, input, df, out, prev, pc>>

\* the state after a build returned r
Built(op, view, r) ==
    /\ db' = r.db
    /\ ret' = [op |-> op, view |-> view, raised |-> r.raised, ok |-> r.ok, rows |-> {},
               again |-> db.matviews[view] # NoView,
               batch |-> <<>>, verdict |-> "none"]
    /\ stage' = After(r.raised)
    /\ call' = NoCall
    /\ UNCHANGED <<today, unreliable, input, df, out, prev, pc>>

CreateCsView ==
    /\ Callable("create_cs_view", CsView)
    /\ \E fault \in Faults(4) :
          Built("create_cs_view", CsView, create_cs_view(CsView, fault, db))

CreateFinanceView ==
    /\ Callable("create_finance_view", FinanceView)
    /\ \E fault \in Faults(4) :
          Built("create_finance_view", FinanceView,
                create_finance_view(FinanceView, fault, db))

CreateEnhancedCsView ==
    /\ Callable("create_enhanced_cs_view", EnhancedCsView)
    /\ \E fault \in Faults(7) :
          Built("create_enhanced_cs_view", EnhancedCsView,
                create_enhanced_cs_view(EnhancedCsView, today, fault, db))

CreateEnhancedFinanceView ==
    /\ Callable("create_enhanced_finance_view", EnhancedFinanceView)
    /\ \E fault \in Faults(7) :
          Built("create_enhanced_finance_view", EnhancedFinanceView,
                create_enhanced_finance_view(EnhancedFinanceView, fault, db))

CreateExecutiveSummaryView ==
    /\ Callable("create_executive_summary_view", ExecutiveView)
    /\ \E fault \in Faults(3), rows \in CREATE_EXEC_SUMMARY_MV(db.user_actions.rows) :
          Built("create_executive_summary_view", ExecutiveView,
                create_executive_summary_view(ExecutiveView, rows, fault, db))

\* check_mat_view(view_name) is entered
CheckMatView ==
    /\ \E view_name \in ViewNames :
          /\ Callable("check_mat_view", view_name)
          /\ call' = [view |-> view_name, at |-> "NotRefreshed", issued |-> <<>>]
    /\ ret' = NoReturn
    /\ UNCHANGED <<db, today, stage, unreliable, input, df, out, prev, pc>>

\* lines 82-97: the call prints its verdict on the rows read and returns
\* the DataFrame, or None when a statement failed
Return(ok, rows) ==
    /\ ret' = [op |-> "check_mat_view", view |-> call.view, raised |-> FALSE,
               ok |-> ok, rows |-> rows, again |-> FALSE, batch |-> <<>>,
               verdict |-> IF ok THEN view_validation(Cardinality(rows)) ELSE "Failed"]
    /\ stage' = After(FALSE)

\* lines 62 and 79: result_df = pd.read_sql_query(exec_view, engine)
Query ==
    \E fault \in {f > 0 : f \in Faults(1)} :
        LET read == ReadView(call.view, fault, db)
        IN  /\ call' = [call EXCEPT
                           !.at = IF read.ok THEN "Returned" ELSE "Failed",
                           !.issued = Append(@, [stmt |-> "SELECT", ok |-> read.ok])]
            /\ Return(read.ok, read.rows)

\* line 62: the view is read without a refresh
QueryDirectly ==
    /\ call.at = "NotRefreshed"
    /\ QueriedDirectly(call.view)
    /\ Query
    /\ UNCHANGED <<db, today, unreliable, input, df, out, prev, pc>>

\* lines 65-70: the concurrent refresh; its failure is caught by the clause
\* of line 71 (an exception nothing caught there would reach the outer
\* handler)
RefreshConcurrently ==
    /\ call.at = "NotRefreshed"
    /\ ~QueriedDirectly(call.view)
    /\ \E fault \in Faults(2), rows \in Outcomes(db.matviews[call.view].def, db, today) :
          LET r == Refresh(call.view, TRUE, rows, fault, db)
              issued == Append(call.issued,
                               [stmt |-> "REFRESH CONCURRENTLY", ok |-> r.ok])
          IN  /\ db' = r.db
              /\ IF r.ok \/ FallbackRuns(r.ok)
                 THEN /\ call' = [call EXCEPT !.at = "ConcurrentAttempted",
                                              !.issued = issued]
                      /\ UNCHANGED <<stage, ret>>
                 ELSE /\ call' = [call EXCEPT !.at = "Failed", !.issued = issued]
                      /\ Return(FALSE, {})
    /\ UNCHANGED <<today, unreliable, input, df, out, prev, pc>>

\* lines 71-76: the blocking refresh; when it fails too the exception reaches
\* the outer handler and the call returns None
RefreshBlocking ==
    /\ call.at = "ConcurrentAttempted"
    /\ FallbackRuns(call.issued[Len(call.issued)].ok)
    /\ \E fault \in Faults(2), rows \in Outcomes(db.matviews[call.view].def, db, today) :
          LET r == Refresh(call.view, FALSE, rows, fault, db)
              issued == Append(call.issued, [stmt |-> "REFRESH", ok |-> r.ok])
          IN  /\ db' = r.db
              /\ IF r.ok
                 THEN /\ call' = [call EXCEPT !.at = "FallbackAttempted",
                                              !.issued = issued]
                      /\ UNCHANGED <<stage, ret>>
                 ELSE /\ call' = [call EXCEPT !.at = "Failed", !.issued = issued]
                      /\ Return(FALSE, {})
    /\ UNCHANGED <<today, unreliable, input, df, out, prev, pc>>

\* line 79: the refreshed view is read
QueryRefreshed ==
    /\ \/ call.at = "FallbackAttempted"
       \/ /\ call.at = "ConcurrentAttempted"
          /\ call.issued[Len(call.issued)].ok
    /\ Query
    /\ UNCHANGED <<db, today, unreliable, input, df, out, prev, pc>>

\* The pipeline, the refresher and the builder against a store that may
\* fail, over a few batches.
ViewNext ==
    \/ RunPipeline
    \/ Load(FewBatches)
    \/ CheckResult
    \/ CreateCsView
    \/ CreateFinanceView
    \/ CreateEnhancedCsView
    \/ CreateEnhancedFinanceView
    \/ CreateExecutiveSummaryView
    \/ CheckMatView
    \/ QueryDirectly
    \/ RefreshConcurrently
    \/ RefreshBlocking
    \/ QueryRefreshed

ViewSpec == ViewInit /\ [][ViewNext]_vars

\* The same against a store that fails no statement, over all the batches;
\* no concurrent refresh fails there, so the blocking refresh never runs.
ReliableNext ==
    \/ RunPipeline
    \/ Load(Batches)
    \/ CheckResult
    \/ CreateCsView
    \/ CreateFinanceView
    \/ CreateEnhancedCsView
    \/ CreateEnhancedFinanceView
    \/ CreateExecutiveSummaryView
    \/ CheckMatView
    \/ QueryDirectly
    \/ RefreshConcurrently
    \/ QueryRefreshed

ReliableSpec == ReliableInit /\ [][ReliableNext]_vars

\* ------------------------------------------------------------ properties

\* the frame as first handed to transform
Raw == DataFrame(input)

\* the raw cell of column name in the record with index label idx
RawCell(idx, name) == Cell(Raw, Raw.rows[idx + 1], name)

OutRows == 1..Len(out.rows)

OutCell(n, name) == Cell(out, out.rows[n], name)

\* the state after the first call of transform
AfterFirstCall == pc = "raised" \/ (pc = "returned" /\ prev = <<>>)

\* C1: after transform every user_id of the output carries one org_id, the
\* org_id of the user's earliest record (records with both identifiers;
\* unparseable timestamps last, equal timestamps in input order).
C1_OneOrgPerUser ==
    (pc = "returned" /\ prev = <<>>) =>
        \A n \in OutRows :
            LET user   == OutCell(n, "user_id")
                mine   == {i \in 1..Len(Raw.rows) :
                              /\ ~isna(RawCell(i - 1, "org_id"))
                              /\ Normalize(RawCell(i - 1, "user_id")) = user}
                stamp(i) == datetime_parser(RawCell(i - 1, "timestamp"))
                first  == CHOOSE i \in mine : \A j \in mine \ {i} :
                              \/ CellLess(stamp(i), stamp(j))
                              \/ ~CellLess(stamp(j), stamp(i)) /\ i < j
            IN  /\ \A m \in OutRows :
                       OutCell(m, "user_id") = user
                           => OutCell(m, "org_id") = OutCell(n, "org_id")
                /\ OutCell(n, "org_id") = Normalize(RawCell(first - 1, "org_id"))

\* C2: every output row has a present org_id and a present user_id, and a
\* record missing one or both identifiers is not in the output.
C2_IdentifiersPresent ==
    pc = "returned" =>
        \A n \in OutRows :
            /\ OutCell(n, "org_id").k = "str"
            /\ OutCell(n, "user_id").k = "str"
            /\ ~isna(RawCell(out.rows[n].idx, "org_id"))
            /\ ~isna(RawCell(out.rows[n].idx, "user_id"))

\* a record missing exactly one identifier was dropped and another was kept
C2_Witness ==
    /\ pc = "returned"
    /\ Len(out.rows) >= 1
    /\ \E i \in 1..Len(Raw.rows) :
           /\ isna(RawCell(i - 1, "org_id")) # isna(RawCell(i - 1, "user_id"))
           /\ \A n \in OutRows : out.rows[n].idx # i - 1

\* C3: for the scenario's three records transform keeps the first two, both
\* with org "a", drops the third, and the Org Balance of "a" is 7.
C3_ScenarioBalance ==
    (input = Scenario /\ pc = "returned" /\ prev = <<>>) =>
        /\ {out.rows[n].idx : n \in OutRows} = {0, 1}
        /\ \A n \in OutRows : OutCell(n, "org_id") = S(<<"a">>)
        /\ total_credits(out, S(<<"a">>)) = 7

\* C4: in every output row credit_type is a non-empty string, "default" when
\* the input had none, and credits is a number, 1.0 when the input had none.
C4_TypedDefaults ==
    pc = "returned" =>
        \A n \in OutRows :
            /\ OutCell(n, "credit_type").k = "str"
            /\ OutCell(n, "credit_type").s # <<>>
            /\ isna(RawCell(out.rows[n].idx, "credit_type"))
                   => OutCell(n, "credit_type") = S(<<"d", "e", "f", "a", "u", "l", "t">>)
            /\ OutCell(n, "credits").k = "num"
            /\ isna(RawCell(out.rows[n].idx, "credits"))
                   => OutCell(n, "credits") = N(<<"1">>)

\* the record's timestamp is missing or unparseable
Unparseable(idx) == datetime_parser(RawCell(idx, "timestamp")).k = "nat"

AcceptedEpoch(v) ==
    /\ IsNumeric(v)
    /\ ~IsNegativeText(v.s)
    /\ LET ts == EpochSeconds(v.s)
       IN  /\ ts.d >= DaysFromCivil(1990, 1, 1)
           /\ \/ ts.d < DaysFromCivil(2050, 1, 1)
              \/ ts.d = DaysFromCivil(2050, 1, 1) /\ ts.t = 0

\* the formats, in the fixed order ISO, European, US, that parse the text
Matching(v) == {i \in 1..3 : v.k = "str" /\ ParseFormat(i, v.s).k = "ts"}

\* what the tiers of the reconciliation give for the value v
Reconciled(v) ==
    IF AcceptedEpoch(v) THEN EpochSeconds(v.s)
    ELSE IF Matching(v) # {}
    THEN ParseFormat(CHOOSE i \in Matching(v) : \A j \in Matching(v) : i <= j, v.s)
    ELSE NaT

\* C6: the first call leaves in the timestamp column, for every record, the
\* instant of a numeric value inside the window (ends included), else the
\* parse of the first matching format of a text, else no timestamp.
C6_TieredReconciliation ==
    AfterFirstCall =>
        \A n \in 1..Len(df.rows) :
            Cell(df, df.rows[n], "timestamp")
                = Reconciled(RawCell(df.rows[n].idx, "timestamp"))

\* a batch holding the last accepted epoch second next to a value that is
\* numeric, outside the window, and so left without a timestamp
C6_Witness ==
    /\ AfterFirstCall
    /\ \E n \in 1..Len(df.rows) :
           /\ IsNumeric(RawCell(df.rows[n].idx, "timestamp"))
           /\ Cell(df, df.rows[n], "timestamp") = END_DATE
    /\ \E n \in 1..Len(df.rows) :
           /\ IsNumeric(RawCell(df.rows[n].idx, "timestamp"))
           /\ Cell(df, df.rows[n], "timestamp") = NaT

\* an input text with its surrounding spaces removed and its letters
\* lower-cased; a missing value stays missing
Cleaned(c) == IF c.k = "str" THEN S(lower(strip(c.s))) ELSE NaN

\* C7: in every output row org_id, user_id, credit_type and action are the
\* input values stripped and lower-cased (an action column without any
\* value is not carried), and a missing credit_type or credits is filled with
\* its default, which normalization does not touch.
C7_NormalizedThenFilled ==
    pc = "returned" =>
        \A n \in OutRows :
            LET idx == out.rows[n].idx
            IN  /\ OutCell(n, "org_id") = Cleaned(RawCell(idx, "org_id"))
                /\ OutCell(n, "user_id") = Cleaned(RawCell(idx, "user_id"))
                /\ IF HasCol(out, "action")
                   THEN OutCell(n, "action") = Cleaned(RawCell(idx, "action"))
                   ELSE isna(RawCell(idx, "action"))
                /\ OutCell(n, "credit_type")
                       = (IF isna(RawCell(idx, "credit_type"))
                          THEN S(<<"d", "e", "f", "a", "u", "l", "t">>)
                          ELSE Cleaned(RawCell(idx, "credit_type")))
                /\ isna(RawCell(idx, "credits")) => OutCell(n, "credits") = N(<<"1">>)

\* an output row whose action had surrounding space and a capital, and an
\* output row whose credit_type was missing and is now "default"
C7_Witness ==
    /\ pc = "returned"
    /\ \E n \in OutRows :
           /\ RawCell(out.rows[n].idx, "action") = ActRefund
           /\ OutCell(n, "action") = S(<<"r", "e", "f", "u", "n", "d">>)
    /\ \E n \in OutRows :
           /\ isna(RawCell(out.rows[n].idx, "credit_type"))
           /\ OutCell(n, "credit_type") = S(<<"d", "e", "f", "a", "u", "l", "t">>)

\* (org_id, user_id) of output row a is not greater than that of row b
PairLeq(a, b) ==
    \/ StrLess(OutCell(a, "org_id").s, OutCell(b, "org_id").s)
    \/ /\ OutCell(a, "org_id").s = OutCell(b, "org_id").s
       /\ ~StrLess(OutCell(b, "user_id").s, OutCell(a, "user_id").s)

\* C8: the returned rows are in ascending (org_id, user_id) order.
C8_SortedByOrgUser ==
    pc = "returned" => \A n \in 1..(Len(out.rows) - 1) : PairLeq(n, n + 1)

\* two output rows of different organizations, returned in the opposite of
\* their input order
C8_Witness ==
    /\ pc = "returned"
    /\ \E n \in 1..(Len(out.rows) - 1) :
           /\ out.rows[n].idx > out.rows[n + 1].idx
           /\ OutCell(n, "org_id") # OutCell(n + 1, "org_id")

\* C9: a second call of transform on the same input returns what the first
\* call returned.
C9_SameOutputTwice == (pc = "returned" /\ prev # <<>>) => out = prev[1]

\* C10: transform does not raise on a batch that has all six columns,
\* whatever values are missing or malformed in it.
C10_NeverRaisesOnValues == pc # "raised"

\* ------------------------------------------------- properties of the views

BuildOps ==
    {"create_cs_view", "create_finance_view", "create_enhanced_cs_view",
     "create_enhanced_finance_view", "create_executive_summary_view"}

\* the indexes on the view name in the store d
IndexesOn(name, d) == {x \in d.indexes : x.on = name}

\* C11: a build of a view that an earlier build left in place, over the same
\* user_actions, succeeds as well and leaves a view with as many rows and the
\* same indexes, its rows a result of its SELECT over the table as it is
\* (store failing no statement).
C11_RebuildIsIdempotent ==
    [][(ret'.op \in BuildOps /\ ret'.again) =>
          /\ ret'.ok
          /\ db'.matviews[ret'.view] # NoView
          /\ db'.matviews[ret'.view].def = db.matviews[ret'.view].def
          /\ Cardinality(db'.matviews[ret'.view].rows)
                 = Cardinality(db.matviews[ret'.view].rows)
          /\ IndexesOn(ret'.view, db') = IndexesOn(ret'.view, db)
          /\ db'.matviews[ret'.view].rows
                 \in Outcomes(db'.matviews[ret'.view].def, db', today')]_vars

\* a view with rows and indexes has been built a second time
C11_Witness ==
    /\ ret.op = "create_enhanced_cs_view"
    /\ ret.again
    /\ ret.ok
    /\ db.matviews[EnhancedCsView].rows # {}
    /\ Cardinality(IndexesOn(EnhancedCsView, db)) = 2

\* C12: a view build raises nothing, whatever statement of it fails, and
\* returns True only with its view in place; the pipeline goes from each build to the next line whatever the build
\* returned: it never reaches its except clause, and the build that returned
\* last is the one of the line before.
C12_BuildFailureContained ==
    /\ ret.op \in BuildOps => ~ret.raised
    /\ (ret.op \in BuildOps /\ ret.ok) => db.matviews[ret.view] # NoView
    /\ stage # Aborted
    /\ (Running /\ ret.op \in BuildOps) => Script[stage - 1].op = ret.op

\* the first build has failed, the pipeline has attempted the others and the
\* last has succeeded
C12_Witness ==
    /\ Running
    /\ Script[stage] = [op |-> "check_mat_view", view |-> CsView]
    /\ db.matviews[CsView] = NoView
    /\ db.matviews[ExecutiveView] # NoView
    /\ ret.op = "create_executive_summary_view"
    /\ ret.ok

\* the call of check_mat_view is on a view it refreshes
RefreshedView == call.at # "Idle" /\ ~QueriedDirectly(call.view)

\* the refresh statements the call has issued, in order
RefreshLog ==
    LET IsRefresh(e) == e.stmt # "SELECT"
    IN  SelectSeq(call.issued, IsRefresh)

\* C13: on a view it refreshes, check_mat_view issues the concurrent refresh
\* first, the blocking refresh next if and only if the concurrent one
\* failed, no refresh after one that succeeded, and reads the view only
\* after its refreshes; it is in ConcurrentAttempted after the first refresh
\* and in FallbackAttempted after a blocking refresh that succeeded.
C13_RefreshStateMachine ==
    RefreshedView =>
        /\ call.at = "NotRefreshed" <=> call.issued = <<>>
        /\ call.issued # <<>> => call.issued[1].stmt = "REFRESH CONCURRENTLY"
        /\ call.at = "ConcurrentAttempted" => Len(call.issued) = 1
        /\ Len(RefreshLog) <= 2
        /\ Len(RefreshLog) = 2 =>
               /\ ~RefreshLog[1].ok
               /\ RefreshLog[2].stmt = "REFRESH"
        /\ (call.at \in {"FallbackAttempted", "Returned", "Failed"}
               /\ ~RefreshLog[1].ok) => Len(RefreshLog) = 2
        /\ call.at = "FallbackAttempted" =>
               Len(call.issued) = 2 /\ RefreshLog[2].ok
        /\ \A i \in DOMAIN call.issued :
               call.issued[i].stmt = "SELECT" =>
                   /\ i = Len(call.issued)
                   /\ i = Len(RefreshLog) + 1
                   /\ RefreshLog[i - 1].ok
        /\ Cardinality({i \in DOMAIN RefreshLog : RefreshLog[i].ok}) <= 1
        /\ call.at = "Returned" =>
               Cardinality({i \in DOMAIN RefreshLog : RefreshLog[i].ok}) = 1

\* a call that fell back to the blocking refresh and returned the view
C13_Witness ==
    /\ RefreshedView
    /\ call.at = "Returned"
    /\ Len(call.issued) = 3
    /\ ~call.issued[1].ok
    /\ call.issued[2].ok

\* the call of check_mat_view on a view it refreshes is over
RefreshCycleOver == RefreshedView /\ call.at \in {"Returned", "Failed"}

\* C14 as claimed: check_mat_view returns None for a view it refreshes only
\* when the blocking refresh failed.
C14_NoneOnlyOnFallbackFailure ==
    (RefreshCycleOver /\ ~ret.ok) =>
        /\ Len(RefreshLog) = 2
        /\ ~RefreshLog[2].ok

\* C14 amended: check_mat_view returns None for a view it refreshes only when
\* the last statement it issued failed, and that statement is the blocking
\* refresh or the read of the refreshed view, never the concurrent refresh;
\* otherwise it returns the rows of the view.
C14_NoneOnFallbackOrReadFailure ==
    RefreshCycleOver =>
        LET last == call.issued[Len(call.issued)]
        IN  /\ ret.op = "check_mat_view"
            /\ ret.view = call.view
            /\ ret.ok <=> call.at = "Returned"
            /\ ~ret.ok => ~last.ok /\ last.stmt \in {"REFRESH", "SELECT"}
            /\ ret.ok => /\ last = [stmt |-> "SELECT", ok |-> TRUE]
                         /\ ret.rows = db.matviews[call.view].rows

\* the concurrent refresh failed, the blocking one recovered it and the rows
\* of the view were returned
C14_Witness ==
    /\ RefreshCycleOver
    /\ ~RefreshLog[1].ok
    /\ ret.ok
    /\ ret.rows # {}

\* C15: check_mat_view issues no refresh on the per-user rollup, the
\* per-organization rollup and the executive summary, it only reads them;
\* and it reads the Daily Activity and the Org Balance view only after a
\* refresh statement.
C15_EphemeralNeverRefreshed ==
    /\ call.view \in {EnhancedCsView, EnhancedFinanceView, ExecutiveView} =>
           \A i \in DOMAIN call.issued : call.issued[i].stmt = "SELECT"
    /\ call.view \in {CsView, FinanceView} =>
           \A i \in DOMAIN call.issued :
               call.issued[i].stmt = "SELECT" =>
                   \E j \in 1..(i - 1) : call.issued[j].stmt # "SELECT"

\* the executive summary has been read by check_mat_view
C15_Witness ==
    /\ call.view = ExecutiveView
    /\ call.at = "Returned"
    /\ call.issued = <<[stmt |-> "SELECT", ok |-> TRUE]>>

\* the rows of user_actions
Table == db.user_actions.rows

\* the store with the rows of credit_type 'default' taken out of user_actions
WithoutDefaultRows ==
    LET Real(r) == r.credit_type # Default
    IN  [db EXCEPT !.user_actions.rows = SelectSeq(@, Real)]

\* C16: every view in the store is the view its SELECT gives over
\* user_actions without the rows of credit_type 'default'.
C16_DefaultRowsIgnored ==
    \A v \in ViewNames :
        db.matviews[v] # NoView =>
            db.matviews[v].rows \in Outcomes(db.matviews[v].def, WithoutDefaultRows, today)

\* C17: no first or last activity date of the per-user rollup or of the
\* executive summary is the sentinel date 1990-01-01.
C17_NoSentinelActivityDate ==
    /\ \A x \in db.matviews[EnhancedCsView].rows :
           /\ x.first_activity_date # SentinelDate
           /\ x.last_activity_date # SentinelDate
    /\ \A x \in db.matviews[ExecutiveView].rows :
           /\ x.first_activity # SentinelDate
           /\ x.last_activity # SentinelDate

\* the rows of user_actions a row x of the Daily Activity view counts
Counted(x) ==
    {i \in DOMAIN Table :
        /\ DATE(Table[i].timestamp) = x.activity_date
        /\ Table[i].org_id = x.org_id
        /\ Table[i].user_id = x.user_id
        /\ Table[i].action = x.action
        /\ Table[i].credit_type = x.credit_type}

\* C18: a row of the Daily Activity view counts the records of its day, org,
\* user, action and credit type, at least one; it is labelled High Usage
\* from 10 records on, Medium Usage from 5 to 9, Low Usage from 1 to 4, never
\* No Usage.
C18_UsageLevelBoundaries ==
    \A x \in db.matviews[CsView].rows :
        /\ x.action_count = Cardinality(Counted(x))
        /\ x.action_count >= 1
        /\ x.usage_level # "No Usage"
        /\ x.action_count >= 10 <=> x.usage_level = "High Usage"
        /\ x.action_count \in 5..9 <=> x.usage_level = "Medium Usage"
        /\ x.action_count \in 1..4 <=> x.usage_level = "Low Usage"

\* a day of exactly 10 actions is in the view, labelled High Usage
C18_Witness ==
    \E x \in db.matviews[CsView].rows :
        x.action_count = 10 /\ x.usage_level = "High Usage"

\* the credits of the records of organization org with the action
Credited(org, action) ==
    Sum([i \in DOMAIN Table |->
            IF Table[i].org_id = org /\ Table[i].action = action
            THEN NumberOf(Table[i].credits) ELSE 0])

\* credits added less credits deducted
Balance(org) == Credited(org, Add) - Credited(org, Deduct)

\* the row x of the per-user rollup is of an organization without a deduct
\* action and with a positive balance
NoDeductInCredit(x) ==
    \E o \in organizations :
        /\ o.org_name = x.organization
        /\ \A i \in DOMAIN Table :
               Table[i].org_id = o.org_id => Table[i].action # Deduct
        /\ Balance(o.org_id) > 0

\* C19 as claimed: every user of an organization without a deduct action and
\* with a positive balance is Not Using Credits, whatever the dates.
C19_NotUsingCreditsAnyDate ==
    \A x \in db.matviews[EnhancedCsView].rows :
        NoDeductInCredit(x) => x.customer_status = "Not Using Credits"

\* C19 amended: such a user is Not Using Credits when the last activity is no
\* more than 30 days before the day of the build, and At Risk - Inactive
\* when it is older.
C19_NotUsingCreditsIfRecent ==
    \A x \in db.matviews[EnhancedCsView].rows :
        NoDeductInCredit(x) =>
            x.customer_status =
                IF x.last_activity_date < today - 30 THEN "At Risk - Inactive"
                ELSE "Not Using Credits"

\* a recently active user of such an organization is in the rollup
C19_Witness ==
    \E x \in db.matviews[EnhancedCsView].rows :
        /\ NoDeductInCredit(x)
        /\ x.last_activity_date >= today - 30
        /\ x.customer_status = "Not Using Credits"

\* C20: the Org Balance view has one row for each organization of
\* user_actions and no other, its total the credits added less the credits
\* deducted by the records of the organization.
C20_OrgBalance ==
    db.matviews[FinanceView] # NoView =>
        /\ \A i \in DOMAIN Table :
               Cardinality({x \in db.matviews[FinanceView].rows :
                               x.org_id = Table[i].org_id}) = 1
        /\ \A x \in db.matviews[FinanceView].rows :
               /\ \E i \in DOMAIN Table : Table[i].org_id = x.org_id
               /\ x.total_credits = Balance(x.org_id)

\* an organization whose only record has another action is in the view with
\* a total of 0, next to one with credits added
C20_Witness ==
    /\ \E i \in DOMAIN Table :
           Table[i].org_id = OrgUnknown /\ Table[i].action = Refund
    /\ [org_id |-> OrgUnknown, total_credits |-> 0] \in db.matviews[FinanceView].rows
    /\ [org_id |-> Org000, total_credits |-> 10] \in db.matviews[FinanceView].rows

\* the step is a call of load that has returned
Loaded == ret'.op = "load"

\* C21: when load has completed, so a run that stops there, before any view
\* is built, leaves the table user_actions holding the new batch and every
\* materialized view that existed before the run still in place with the
\* rows it had.
C21_ViewsStaleAfterLoad ==
    [][(Loaded /\ ret'.ok) =>
          /\ db'.user_actions.rows = ret'.batch
          /\ \A v \in ViewNames :
                db.matviews[v] # NoView => db'.matviews[v] = db.matviews[v]]_vars

\* C22: a failure of the store during load is fatal to the stage and reaches
\* the caller: the exception leaves load, the run ends there with no later
\* stage executed, and what was committed before is unchanged.
C22_LoadFailurePropagates ==
    [][(Loaded /\ ~ret'.ok) =>
          /\ ret'.raised
          /\ stage' = Aborted
          /\ db' = db]_vars

\* C23: after a successful load the table user_actions holds exactly the
\* rows of the batch passed to it, whatever the loads before it left there.
C23_TableIsTheBatch ==
    [][(Loaded /\ ret'.ok) =>
          db'.user_actions = [exists |-> TRUE, rows |-> ret'.batch]]_vars

\* a load of a one-row batch has succeeded on a table that held rows of an
\* earlier run
C23_Witness ==
    /\ ret.op = "load"
    /\ ret.ok
    /\ ret.again
    /\ ret.batch = <<Record(Org000, User000, PremiumType, Deduct, <<"3">>, Day2)>>
    /\ db.user_actions.rows = ret.batch

\* C29: after any call of load returns, the table user_actions holds either
\* exactly the new batch or exactly the rows it held before the call.
C29_LoadIsAllOrNothing ==
    [][Loaded =>
          \/ db'.user_actions.rows = ret'.batch
          \/ db'.user_actions.rows = db.user_actions.rows]_vars

\* C24: validating a view classifies it Empty when it has no row, Sparse
\* when it has rows but fewer than the low-volume threshold (the one
\* check_result applies to the table) and Passed otherwise, and no step of
\* the validation changes the rows of the view.
C24_ViewValidation ==
    /\ []((ret.op = "check_mat_view" /\ ret.ok) =>
              ret.verdict = data_quality(Cardinality(ret.rows)))
    /\ [][InCall => db'.matviews[call.view].rows = db.matviews[call.view].rows]_vars

\* the input records with a missing org_id or a missing user_id, all of
\* which transform removes
MissingIdentifier ==
    {i \in 1..Len(Raw.rows) :
        isna(RawCell(i - 1, "org_id")) \/ isna(RawCell(i - 1, "user_id"))}

\* C25: the drop count transform reports equals the number of input records
\* removed because org_id or user_id (one or both) is missing.
C25_DropCountComplete ==
    pc = "returned" => dropped_count(df) = Cardinality(MissingIdentifier)

\* the rows of the per-user rollup
Rollup == db.matviews[EnhancedCsView].rows

\* the last activity of the rollup row is older than 30 days
Inactive(x) == x.last_activity_date < today - 30

\* C26: the health status of a rollup row is decided in priority order:
\* last activity older than 30 days gives At Risk; otherwise zero consumed
\* credits gives Not Using Credits; otherwise a negative net balance gives
\* Low Balance; otherwise Healthy.  Hence Healthy goes only with recent
\* activity, positive consumption and a non-negative net balance, and each
\* user has exactly one status.
C26_HealthPriority ==
    \A x \in Rollup :
        /\ Inactive(x) => x.customer_status = "At Risk - Inactive"
        /\ (~Inactive(x) /\ x.total_credits_consumed = 0)
               => x.customer_status = "Not Using Credits"
        /\ (~Inactive(x) /\ x.total_credits_consumed # 0 /\ x.net_credit_balance < 0)
               => x.customer_status = "Low Balance - Upsell Opportunity"
        /\ (~Inactive(x) /\ x.total_credits_consumed # 0 /\ x.net_credit_balance >= 0)
               => x.customer_status = "Healthy"
        /\ x.customer_status = "Healthy"
               => /\ ~Inactive(x)
                  /\ x.total_credits_consumed > 0
                  /\ x.net_credit_balance >= 0
        /\ \A y \in Rollup :
               y.user_email = x.user_email => y.customer_status = x.customer_status

\* the records of the output user with a parseable timestamp and an org_id
Dated(user) ==
    {j \in 0..(Len(Raw.rows) - 1) :
        /\ Normalize(RawCell(j, "user_id")) = user
        /\ ~isna(RawCell(j, "org_id"))
        /\ ~Unparseable(j)}

\* the earliest of them, the first in input order among equals
EarliestDated(user) ==
    LET stamp(j) == datetime_parser(RawCell(j, "timestamp"))
    IN  CHOOSE j \in Dated(user) : \A k \in Dated(user) \ {j} :
            \/ CellLess(stamp(j), stamp(k))
            \/ ~CellLess(stamp(k), stamp(j)) /\ j < k

\* C27: a record whose timestamp is missing or unparseable never determines
\* the organization of its user when the user has a record with a parseable
\* timestamp and an org_id: if such a record is in the output, its org_id is
\* that of the user's earliest parseable record (it carries the sentinel,
\* which is no later than any timestamp of the output).
C27_UndatedNeverDecidesOrg ==
    (pc = "returned" /\ prev = <<>>) =>
        \A n \in OutRows :
            /\ OutCell(n, "timestamp").k = "ts"
                   => ~TsLess(OutCell(n, "timestamp"), Sentinel)
            /\ (Unparseable(out.rows[n].idx) /\ Dated(OutCell(n, "user_id")) # {})
                   => /\ OutCell(n, "timestamp") = Sentinel
                      /\ OutCell(n, "org_id") =
                             Normalize(RawCell(EarliestDated(OutCell(n, "user_id")),
                                               "org_id"))

\* C28: when a build fails at one of its statements (or at its commit), the
\* materialized view that existed before it is still there with the rows
\* and the indexes it had: nothing of the build has taken effect.
C28_FailedBuildChangesNothing ==
    [][(ret'.op \in BuildOps /\ ~ret'.ok) =>
          /\ db'.matviews[ret'.view] = db.matviews[ret'.view]
          /\ IndexesOn(ret'.view, db') = IndexesOn(ret'.view, db)
          /\ db' = db]_vars

\* a build of a view that was in place with an index has failed, and view
\* and index are there
C28_Witness ==
    /\ ret.op = "create_finance_view"
    /\ ~ret.ok
    /\ ret.again
    /\ db.matviews[FinanceView].def = "CREATE_FINANCE_MV"
    /\ db.matviews[FinanceView].rows # {}
    /\ IndexesOn(FinanceView, db) # {}

\* the rows of the Org Balance view and of the per-organization rollup
OrgBalance == db.matviews[FinanceView].rows

OrgRollup == db.matviews[EnhancedFinanceView].rows

====
